---- MODULE Spec2Model ----
(***************************************************************************)
(* A model of markov_football: the possession chain built from two lineups *)
(* (_calculate_team_probs, calculate_markov_chain), the objective of the   *)
(* lineup search (evaluate_lineup, next_goal_probs) and the search itself  *)
(* (optmise_player_positions_in_parrallel, _experiment_with_positioning).  *)
(*                                                                         *)
(* Python floats are modelled as fixed-point numbers: the integer n stands *)
(* for the real n / FP.  Every arithmetic step of the source is kept, with *)
(* the rounding of a fixed-point step in place of the rounding of a float  *)
(* step.                                                                   *)
(***************************************************************************)
EXTENDS Integers, Sequences, FiniteSets, TLC

\* Fixed-point scale: the number of units in 1.0.
FP == 10000

\* The greatest stall threshold (max_cycles_without_improvement) tried.
MaxThreshold == 2

\* markov_football.py:15
goal_keeper_correction == 3

\* Semantically the identity on functions; it makes TLC hold the function as
\* a table instead of re-evaluating its defining expression at every use.
Strict(f) == f @@ <<>>

Max(a, b) == IF a >= b THEN a ELSE b

(***************************************************************************)
(* Enumerations (markov_football.py:18-44).                                *)
(***************************************************************************)
Position == {"GK", "D", "M", "F"}

TeamState == {"WITH_GK", "WITH_D", "WITH_M", "WITH_F", "SCORED"}

Ability == {"BLOCKING", "TACKLING", "INTERCEPTION", "SHOOTING", "DRIBBLING", "PASSING"}

S(team, team_state) == <<team, team_state>>

Tx(s1, s2, p) == [source |-> s1, destination |-> s2, probability |-> p]

(***************************************************************************)
(* The players of the model: two squads of players with fixed abilities.   *)
(* A Player is identified by its name; abilities(player) is its            *)
(* Abilities dictionary, in fixed-point units.  Squad A holds two          *)
(* different players, squad B two equal ones, as                           *)
(* generate_typical_player_population makes them (every ability 0.5).      *)
(***************************************************************************)
names == <<"A", "B">>

Name == {names[k] : k \in DOMAIN names}

Squad(name) == IF name = "A" THEN {"a1", "a2"} ELSE {"b1", "b2"}

Ab(bl, ta, in, sh, dr, pa) ==
    [a \in Ability |->
        CASE a = "BLOCKING" -> bl
          [] a = "TACKLING" -> ta
          [] a = "INTERCEPTION" -> in
          [] a = "SHOOTING" -> sh
          [] a = "DRIBBLING" -> dr
          [] a = "PASSING" -> pa]

abilities(player) ==
    CASE player = "a1" -> Ab(9000, 2000, 3000, 1000, 2000, 8000)
      [] player = "a2" -> Ab(1000, 3000, 2000, 9000, 8000, 4000)
      [] player = "b1" -> Ab(5000, 5000, 5000, 5000, 5000, 5000)
      [] player = "b2" -> Ab(5000, 5000, 5000, 5000, 5000, 5000)

(***************************************************************************)
(* TeamLineup (markov_football.py:68-116): a named dict Player -> Position.*)
(***************************************************************************)
\* a constructor that does not count the goalkeepers
LineupRaisesWithoutGoalkeeperCheck(name, players) ==
    \/ name = ""
    \/ Cardinality(DOMAIN players) > 11

\* TeamLineup.__init__ raises ValueError on these.
LineupRaises(name, players) ==
    \/ name = ""
    \/ Cardinality(DOMAIN players) > 11
    \/ Cardinality({p \in DOMAIN players : players[p] = "GK"}) > 1

TeamLineup(name, players) == [name |-> name, players |-> players]

ValidLineups(name) ==
    {TeamLineup(name, pl) : pl \in {q \in [Squad(name) -> Position] : ~LineupRaises(name, q)}}

\* with_player_positions: a copy of the dict with the given (player, position)
\* pairs written in order, handed to the constructor.  The result is
\* [raised |-> TRUE] when the constructor raises.
RECURSIVE ApplyPositions(_, _)
ApplyPositions(players, player_positions) ==
    IF player_positions = <<>> THEN players
    ELSE ApplyPositions([players EXCEPT ![player_positions[1][1]] = player_positions[1][2]],
                        Tail(player_positions))

with_player_positions(lineup, player_positions) ==
    LET players == ApplyPositions(lineup.players, player_positions)
    IN  IF LineupRaises(lineup.name, players)
        THEN [raised |-> TRUE, lineup |-> lineup]
        ELSE [raised |-> FALSE, lineup |-> TeamLineup(lineup.name, players)]

(***************************************************************************)
(* Float functions, in fixed point.                                        *)
(***************************************************************************)
RECURSIVE NewtonSqrt(_, _)
NewtonSqrt(n, x) ==
    LET y == (x + n \div x) \div 2
    IN  IF y >= x THEN x ELSE NewtonSqrt(n, y)

\* math.sqrt: the fixed-point square root of x, rounded down.
sqrt(x) == IF x = 0 THEN 0 ELSE NewtonSqrt(x * FP, Max(FP, x))

\* math.exp(-x) for x >= 0: a cubic Taylor polynomial below 1/8, and
\* exp(-x) = exp(-x/2)^2 above.
RECURSIVE ExpNeg(_)
ExpNeg(x) ==
    IF 8 * x <= FP
    THEN LET x2 == (x * x) \div FP
         IN  FP - x + x2 \div 2 - (x2 * x) \div (6 * FP)
    ELSE LET h == ExpNeg(x \div 2)
         IN  (h * h) \div FP

\* logistic(x) = 1.0 / (1.0 + math.exp(-x)); for x < 0 the same value is
\* computed as exp(x) / (1 + exp(x)), which keeps exp within the range.
logistic(x) ==
    IF x >= 0
    THEN (FP * FP) \div (FP + ExpNeg(x))
    ELSE LET e == ExpNeg(-x) IN (FP * e) \div (FP + e)

\* sum(map(lambda item: item[0].abilities[ability], players_at_position.items()))
RECURSIVE SumAbility(_, _)
SumAbility(players, ability) ==
    IF players = {} THEN 0
    ELSE LET p == CHOOSE q \in players : TRUE
         IN  abilities(p)[ability] + SumAbility(players \ {p}, ability)

\* TeamLineup.total_ability
total_ability(lineup, ability, position) ==
    LET players_at_position == {p \in DOMAIN lineup.players : lineup.players[p] = position}
    IN  sqrt(SumAbility(players_at_position, ability)
             * (IF position = "GK" THEN goal_keeper_correction ELSE 1))

(***************************************************************************)
(* The chain of two lineups (markov_football.py:151-240).                  *)
(***************************************************************************)
\* lines 155-193: the ten probabilities
Probabilities(lineup, other_lineup) ==
    LET gk_passing == total_ability(lineup, "PASSING", "GK")
        d_passing == total_ability(lineup, "PASSING", "D")
        m_passing == total_ability(lineup, "PASSING", "M")
        f_passing == total_ability(lineup, "PASSING", "F")
        of_intercepting == total_ability(other_lineup, "INTERCEPTION", "F")
        om_intercepting == total_ability(other_lineup, "INTERCEPTION", "M")
        od_intercepting == total_ability(other_lineup, "INTERCEPTION", "D")
        d_dribbling == total_ability(lineup, "DRIBBLING", "D")
        m_dribbling == total_ability(lineup, "DRIBBLING", "M")
        f_dribbling == total_ability(lineup, "DRIBBLING", "F")
        of_tackling == total_ability(other_lineup, "TACKLING", "F")
        om_tackling == total_ability(other_lineup, "TACKLING", "M")
        od_tackling == total_ability(other_lineup, "TACKLING", "D")
        m_shooting == total_ability(lineup, "SHOOTING", "M")
        f_shooting == total_ability(lineup, "SHOOTING", "F")
        om_blocking == total_ability(other_lineup, "BLOCKING", "M")
        od_blocking == total_ability(other_lineup, "BLOCKING", "D")
        ogk_blocking == total_ability(other_lineup, "BLOCKING", "GK")
    IN  [p_gk_d |-> logistic(gk_passing - of_intercepting),
         p_gk_m |-> logistic(gk_passing - om_intercepting),
         p_gk_f |-> logistic(gk_passing - od_intercepting),
         p_d_d |-> logistic(d_passing + d_dribbling - of_tackling),
         p_d_m |-> logistic(d_passing + d_dribbling - of_tackling - om_intercepting),
         p_m_m |-> logistic(m_passing + m_dribbling - om_tackling),
         p_m_f |-> logistic(m_passing + m_dribbling - om_tackling - od_intercepting),
         p_m_sc |-> logistic(m_shooting + m_dribbling - om_tackling - om_blocking
                             - od_tackling - od_blocking - ogk_blocking),
         p_f_f |-> logistic(f_passing + f_dribbling - od_tackling),
         p_f_sc |-> logistic(f_shooting + f_dribbling - od_tackling - od_blocking
                             - ogk_blocking)]

\* lines 195-235 with "GK pass to M" (201-202) left in beside "GK pass to D"
TransitionsGkToM(team, other_team, p) ==
    << Tx(S(team, "WITH_GK"), S(team, "WITH_D"), p.p_gk_d),
       Tx(S(team, "WITH_GK"), S(other_team, "WITH_F"), FP - p.p_gk_d),
       Tx(S(team, "WITH_GK"), S(team, "WITH_M"), p.p_gk_m),
       Tx(S(team, "WITH_GK"), S(other_team, "WITH_M"), FP - p.p_gk_m),
       Tx(S(team, "WITH_D"), S(team, "WITH_M"), p.p_d_m),
       Tx(S(team, "WITH_D"), S(other_team, "WITH_M"), FP - p.p_d_m),
       Tx(S(team, "WITH_M"), S(team, "WITH_F"), p.p_m_f),
       Tx(S(team, "WITH_M"), S(other_team, "WITH_D"), FP - p.p_m_f),
       Tx(S(team, "WITH_F"), S(team, "SCORED"), p.p_f_sc),
       Tx(S(team, "WITH_F"), S(other_team, "WITH_GK"), FP - p.p_f_sc) >>

\* lines 195-235 with "F pass to F" (229-230) in the place of "F shoots"
TransitionsFPassesToF(team, other_team, p) ==
    << Tx(S(team, "WITH_GK"), S(team, "WITH_D"), p.p_gk_d),
       Tx(S(team, "WITH_GK"), S(other_team, "WITH_F"), FP - p.p_gk_d),
       Tx(S(team, "WITH_D"), S(team, "WITH_M"), p.p_d_m),
       Tx(S(team, "WITH_D"), S(other_team, "WITH_M"), FP - p.p_d_m),
       Tx(S(team, "WITH_M"), S(team, "WITH_F"), p.p_m_f),
       Tx(S(team, "WITH_M"), S(other_team, "WITH_D"), FP - p.p_m_f),
       Tx(S(team, "WITH_F"), S(team, "WITH_F"), p.p_f_f),
       Tx(S(team, "WITH_F"), S(other_team, "WITH_D"), FP - p.p_f_f) >>

\* lines 195-235 with "M shoots" (225-226) in the place of "M pass to F"
TransitionsMShoots(team, other_team, p) ==
    << Tx(S(team, "WITH_GK"), S(team, "WITH_D"), p.p_gk_d),
       Tx(S(team, "WITH_GK"), S(other_team, "WITH_F"), FP - p.p_gk_d),
       Tx(S(team, "WITH_D"), S(team, "WITH_M"), p.p_d_m),
       Tx(S(team, "WITH_D"), S(other_team, "WITH_M"), FP - p.p_d_m),
       Tx(S(team, "WITH_M"), S(team, "SCORED"), p.p_m_sc),
       Tx(S(team, "WITH_M"), S(other_team, "WITH_GK"), FP - p.p_m_sc),
       Tx(S(team, "WITH_F"), S(team, "SCORED"), p.p_f_sc),
       Tx(S(team, "WITH_F"), S(other_team, "WITH_GK"), FP - p.p_f_sc) >>

\* lines 195-235: the returned list; the other transitions are commented out
Transitions(team, other_team, p) ==
    << Tx(S(team, "WITH_GK"), S(team, "WITH_D"), p.p_gk_d),
       Tx(S(team, "WITH_GK"), S(other_team, "WITH_F"), FP - p.p_gk_d),
       Tx(S(team, "WITH_D"), S(team, "WITH_M"), p.p_d_m),
       Tx(S(team, "WITH_D"), S(other_team, "WITH_M"), FP - p.p_d_m),
       Tx(S(team, "WITH_M"), S(team, "WITH_F"), p.p_m_f),
       Tx(S(team, "WITH_M"), S(other_team, "WITH_D"), FP - p.p_m_f),
       Tx(S(team, "WITH_F"), S(team, "SCORED"), p.p_f_sc),
       Tx(S(team, "WITH_F"), S(other_team, "WITH_GK"), FP - p.p_f_sc) >>

_calculate_team_probs(lineup, other_lineup) ==
    Transitions(lineup.name, other_lineup.name, Probabilities(lineup, other_lineup))

calculate_markov_chain(lineup1, lineup2) ==
    _calculate_team_probs(lineup1, lineup2) \o _calculate_team_probs(lineup2, lineup1)

(***************************************************************************)
(* MarkovChain (markov.py): a chain is the list of Tx it is built from.    *)
(***************************************************************************)
ChainStates(chain) ==
    {chain[i].source : i \in DOMAIN chain} \cup {chain[i].destination : i \in DOMAIN chain}

\* States with at least one outgoing transition.
transient_states(chain) == {chain[i].source : i \in DOMAIN chain}

\* States with no outgoing transition.
absorbing_states(chain) == ChainStates(chain) \ transient_states(chain)

\* The transient states in a fixed order: that of their first Tx in the list.
RECURSIVE TransientOrder(_, _)
TransientOrder(chain, seen) ==
    IF chain = <<>> THEN <<>>
    ELSE IF Head(chain).source \in seen
         THEN TransientOrder(Tail(chain), seen)
         ELSE <<Head(chain).source>>
              \o TransientOrder(Tail(chain), seen \cup {Head(chain).source})

\* The probability of the step from state a to state b: 0 when the list
\* holds no such Tx.
RECURSIVE StepProbability(_, _, _)
StepProbability(chain, a, b) ==
    IF chain = <<>> THEN 0
    ELSE (IF Head(chain).source = a /\ Head(chain).destination = b
          THEN Head(chain).probability ELSE 0)
         + StepProbability(Tail(chain), a, b)

\* Gauss-Jordan elimination of the n rows of the augmented matrix M, from
\* pivot k on; every row ends with 1.0 on the diagonal.
RECURSIVE Eliminate(_, _, _)
Eliminate(M, n, k) ==
    IF k > n THEN M
    ELSE LET pivot == M[k][k]
             row == Strict([j \in 1..(n + 1) |-> (M[k][j] * FP) \div pivot])
             reduced == Strict([i \in 1..n |->
                 IF i = k THEN row
                 ELSE IF M[i][k] = 0 THEN M[i]
                 ELSE Strict([j \in 1..(n + 1) |-> M[i][j] - (M[i][k] * row[j]) \div FP])])
         IN  Eliminate(reduced, n, k + 1)

\* For every transient state, the probability of being absorbed in state
\* `absorbing`: the column of B in (I - Q) B = R.
AbsorptionColumn(chain, absorbing) ==
    LET order == TransientOrder(chain, {})
        n == Len(order)
        M == Strict([i \in 1..n |-> Strict([j \in 1..(n + 1) |->
                 IF j = n + 1 THEN StepProbability(chain, order[i], absorbing)
                 ELSE (IF i = j THEN FP ELSE 0) - StepProbability(chain, order[i], order[j])])])
        solved == Eliminate(M, n, 1)
    IN  [t \in transient_states(chain) |->
            solved[CHOOSE i \in 1..n : order[i] = t][n + 1]]

RECURSIVE SumColumn(_, _)
SumColumn(column, states) ==
    IF states = {} THEN 0
    ELSE LET t == CHOOSE u \in states : TRUE
         IN  column[t] + SumColumn(column, states \ {t})

\* calculate_mean_outcome_given_states: for every absorbing state, the mean
\* over the given start states of the probability of being absorbed there.
calculate_mean_outcome_given_states(chain, start_states) ==
    [a \in absorbing_states(chain) |->
        SumColumn(AbsorptionColumn(chain, a), start_states) \div Cardinality(start_states)]

(***************************************************************************)
(* The objective (markov_football.py:243-249, 321-330).                    *)
(***************************************************************************)
\* The team_states every caller passes (util.py:171, 193, 224).
team_states == {"WITH_M"}

next_goal_probs(chain, states) ==
    LET absorbing_names == {a[1] : a \in absorbing_states(chain)}
    IN  calculate_mean_outcome_given_states(
            chain, {S(name, team_state) : name \in absorbing_names, team_state \in states})

\* One value of evaluate_lineup's generator.
evaluate_lineup(lineup, reference_lineup) ==
    IF reference_lineup.name = lineup.name THEN FP \div 2
    ELSE next_goal_probs(calculate_markov_chain(lineup, reference_lineup),
                         team_states)[S(lineup.name, "SCORED")]

\* evaluate_lineup is a pure function of the two lineups: its values over
\* the lineups of the two squads, computed once.
AllLineups == UNION {ValidLineups(names[k]) : k \in DOMAIN names}

EvaluateLineupTable ==
    Strict([pair \in AllLineups \X AllLineups |-> evaluate_lineup(pair[1], pair[2])])

NextGoalProb(lineup, reference_lineup) == EvaluateLineupTable[<<lineup, reference_lineup>>]

RECURSIVE SumNextGoalProbs(_, _, _)
SumNextGoalProbs(lineup, reference_lineups, keys) ==
    IF keys = {} THEN 0
    ELSE LET k == CHOOSE x \in keys : TRUE
         IN  NextGoalProb(lineup, reference_lineups[k])
             + SumNextGoalProbs(lineup, reference_lineups, keys \ {k})

\* sum(evaluate_lineup(lineup, reference_lineups, team_states)) / len(reference_lineups)
MeanNextGoalProb(lineup, reference_lineups) ==
    SumNextGoalProbs(lineup, reference_lineups, DOMAIN reference_lineups)
        \div Cardinality(DOMAIN reference_lineups)

(***************************************************************************)
(* _experiment_with_positioning (markov_football.py:288-318).  The three   *)
(* np.random.choice draws are the parameter `draw`:                        *)
(*   <<"move", player, new_position>>   the first branch,                  *)
(*   <<"swap", player1, player2>>       the second.                        *)
(* The result is the returned tuple without its description: None is the   *)
(* empty set, a lineup l is {l}.  `raised` tells that an exception left    *)
(* the function.                                                           *)
(***************************************************************************)
Draws(lineup) ==
    {<<"move", player, new_position>> :
        player \in DOMAIN lineup.players, new_position \in Position}
    \cup {<<"swap", player1, player2>> :
        player1 \in DOMAIN lineup.players, player2 \in DOMAIN lineup.players}

\* The draws np.random.choice can return: a new position other than the old
\* one, two players drawn without replacement.
CanDraw(lineup, draw) ==
    /\ draw \in Draws(lineup)
    /\ draw[1] = "move" => draw[3] # lineup.players[draw[2]]
    /\ draw[1] = "swap" => draw[2] # draw[3]

NoCandidate == [raised |-> FALSE, new_next_goal_prob |-> 0, new_lineup |-> {}]

Candidate(new_lineup, reference_lineups) ==
    [raised |-> FALSE,
     new_next_goal_prob |-> MeanNextGoalProb(new_lineup, reference_lineups),
     new_lineup |-> {new_lineup}]

\* a construction whose exception nothing catches
NoExcept(constructed, reference_lineups) ==
    IF constructed.raised THEN [NoCandidate EXCEPT !.raised = TRUE]
    ELSE Candidate(constructed.lineup, reference_lineups)

\* try: ... except: return (0, None, description)
TryExcept(constructed, reference_lineups) ==
    IF constructed.raised THEN NoCandidate
    ELSE Candidate(constructed.lineup, reference_lineups)

_experiment_with_positioning(lineup, reference_lineups, draw) ==
    IF draw[1] = "move"
    THEN TryExcept(with_player_positions(lineup, << <<draw[2], draw[3]>> >>),
                   reference_lineups)
    ELSE LET position1 == lineup.players[draw[2]]
             position2 == lineup.players[draw[3]]
         IN  IF position1 = position2 THEN NoCandidate
             ELSE TryExcept(with_player_positions(
                                lineup, << <<draw[2], position2>>, <<draw[3], position1>> >>),
                            reference_lineups)

(***************************************************************************)
(* optmise_player_positions_in_parrallel (markov_football.py:252-285; the  *)
(* same loop over Selections is util.py:35-66).                            *)
(***************************************************************************)
VARIABLES
    lineups_by_name,                 \* the argument
    max_cycles_without_improvement,  \* the argument
    local_lineups_by_name,
    cycles_without_improvement,
    pc,                              \* "while", "for", "trial", "judge", "done", "raised";
                                     \* "walk"; "step", "returned", "terminal_state_error"
    name_index,                      \* name = names[name_index]
    cur_lineup,                      \* `lineup`, and the other locals of the loop body
    next_goal_p,
    trial_next_goal_p,
    trial_lineup,
    description,                     \* the draws of the trial, which the source words as a text
    \* history, read by no action
    judged,             \* what lines 276-281 did with the last trial
    accepted_in_pass,   \* a trial was accepted in the current pass
    stall_passes,       \* consecutive full passes ended without an acceptance
    pass_start,         \* local_lineups_by_name when the current pass began
    improved,           \* some trial so far had a candidate with a greater objective
    \* a chain and the state of a walk on it (hold_fixture, util.py:173-178)
    mc,
    s,
    \* the other locals of hold_fixture (util.py:175-177)
    score_keeper,
    step

vars == <<lineups_by_name, max_cycles_without_improvement, local_lineups_by_name,
          cycles_without_improvement, pc, name_index, cur_lineup, next_goal_p, trial_next_goal_p,
          trial_lineup, description, judged, accepted_in_pass, stall_passes, pass_start,
          improved, mc, s, score_keeper, step>>

optimiser_vars ==
    <<lineups_by_name, max_cycles_without_improvement, local_lineups_by_name,
      cycles_without_improvement, pc, name_index, cur_lineup, next_goal_p,
      trial_next_goal_p, trial_lineup, description, judged, accepted_in_pass,
      stall_passes, pass_start, improved>>

\* what no step of the optimiser changes
args == <<lineups_by_name, max_cycles_without_improvement, mc, s, score_keeper, step>>

locals == <<cur_lineup, next_goal_p, trial_next_goal_p, trial_lineup, description>>

cur_name == names[name_index]

\* The groups optimize is called with: for every name a lineup of its
\* squad that fields one goalkeeper, as create_lineup makes them.
InputGroups == {g \in [Name -> AllLineups] :
                   \A n \in Name : /\ g[n] \in ValidLineups(n)
                                    /\ Cardinality({q \in Squad(n) :
                                                        g[n].players[q] = "GK"}) = 1}

Init ==
    /\ lineups_by_name \in InputGroups
    /\ max_cycles_without_improvement \in 1..MaxThreshold
    /\ local_lineups_by_name = lineups_by_name
    /\ cycles_without_improvement = 0
    /\ pc = "while"
    /\ name_index = 0
    /\ cur_lineup = {} /\ next_goal_p = 0 /\ trial_next_goal_p = 0 /\ trial_lineup = {}
    /\ description = <<>>
    /\ judged = "" /\ accepted_in_pass = FALSE /\ stall_passes = 0
    /\ pass_start = lineups_by_name /\ improved = FALSE
    /\ mc = <<>> /\ s = <<>> /\ score_keeper = <<>> /\ step = 0

\* line 262, the loop is entered
While ==
    /\ pc = "while"
    /\ cycles_without_improvement < max_cycles_without_improvement
    /\ pc' = "for" /\ name_index' = 0
    /\ accepted_in_pass' = FALSE /\ pass_start' = local_lineups_by_name
    /\ UNCHANGED <<args, local_lineups_by_name, cycles_without_improvement, locals,
                   judged, stall_passes, improved>>

\* lines 262 and 285, the loop is left
Return ==
    /\ pc = "while"
    /\ ~(cycles_without_improvement < max_cycles_without_improvement)
    /\ pc' = "done"
    /\ UNCHANGED <<args, local_lineups_by_name, cycles_without_improvement, name_index, locals,
                   judged, accepted_in_pass, stall_passes, pass_start, improved>>

\* line 264, the next name.  The locals of the loop body are dead here: the
\* body writes each of them before it reads it.
ForNext ==
    /\ pc = "for"
    /\ name_index < Len(names)
    /\ name_index' = name_index + 1 /\ pc' = "trial"
    /\ cur_lineup' = {} /\ next_goal_p' = 0 /\ trial_next_goal_p' = 0 /\ trial_lineup' = {}
    /\ description' = <<>>
    /\ judged' = ""
    /\ UNCHANGED <<args, local_lineups_by_name, cycles_without_improvement,
                   accepted_in_pass, stall_passes, pass_start, improved>>

\* the end of a pass that leaves the counter as it is
ForExitWithoutCount ==
    /\ pc = "for"
    /\ name_index = Len(names)
    /\ pc' = "while"
    /\ cur_lineup' = {} /\ next_goal_p' = 0 /\ trial_next_goal_p' = 0 /\ trial_lineup' = {}
    /\ description' = <<>>
    /\ judged' = ""
    /\ stall_passes' = 0
    /\ UNCHANGED <<args, local_lineups_by_name, cycles_without_improvement, name_index,
                   accepted_in_pass, pass_start, improved>>

\* lines 264, 282-283: the names are exhausted.  The locals of the body are
\* dead from here on as well.
ForExit ==
    /\ pc = "for"
    /\ name_index = Len(names)
    /\ cycles_without_improvement' = cycles_without_improvement + 1
    /\ pc' = "while"
    /\ cur_lineup' = {} /\ next_goal_p' = 0 /\ trial_next_goal_p' = 0 /\ trial_lineup' = {}
    /\ description' = <<>>
    /\ judged' = ""
    /\ stall_passes' = IF accepted_in_pass THEN 0 ELSE stall_passes + 1
    /\ UNCHANGED <<args, local_lineups_by_name, name_index, accepted_in_pass, pass_start, improved>>

\* the lineups as they were when the pass began
PassStartLineups == pass_start

\* The lineups the trial of line 272 is measured against.
ReferenceLineups == local_lineups_by_name

\* lines 265-274
Experiment ==
    /\ pc = "trial"
    /\ LET current == local_lineups_by_name[cur_name]
           p == MeanNextGoalProb(current, ReferenceLineups)
       IN  \E draw \in Draws(current) :
              /\ CanDraw(current, draw)
              /\ LET t == _experiment_with_positioning(current, ReferenceLineups, draw)
                 IN  /\ cur_lineup' = {current}
                     /\ next_goal_p' = p
                     /\ trial_next_goal_p' = t.new_next_goal_prob
                     /\ trial_lineup' = t.new_lineup
                     /\ description' = draw
                     /\ pc' = IF t.raised THEN "raised" ELSE "judge"
    /\ UNCHANGED <<args, local_lineups_by_name, cycles_without_improvement, name_index,
                   judged, accepted_in_pass, stall_passes, pass_start, improved>>

\* line 276: `not trial_lineup` holds of None and of a lineup without players
Not(a_lineup) == a_lineup = {} \/ \A l \in a_lineup : DOMAIN l.players = {}

\* a comparison that lets a draw through
GreaterOrEqual(trial_p, p) == trial_p >= p

\* line 278
Greater(trial_p, p) == trial_p > p

\* lines 276-281
Judge ==
    /\ pc = "judge"
    /\ pc' = "for"
    /\ IF Not(trial_lineup)
       THEN /\ judged' = "no_candidate"
            /\ UNCHANGED <<local_lineups_by_name, cycles_without_improvement, accepted_in_pass>>
       ELSE IF Greater(trial_next_goal_p, next_goal_p)
       THEN /\ local_lineups_by_name' =
                   [local_lineups_by_name EXCEPT ![cur_name] = CHOOSE l \in trial_lineup : TRUE]
            /\ cycles_without_improvement' = 0
            /\ judged' = "accepted"
            /\ accepted_in_pass' = TRUE
       ELSE /\ judged' = "rejected"
            /\ UNCHANGED <<local_lineups_by_name, cycles_without_improvement, accepted_in_pass>>
    /\ improved' = (improved \/ (trial_lineup # {} /\ trial_next_goal_p > next_goal_p))
    /\ UNCHANGED <<args, name_index, locals, stall_passes, pass_start>>

Next == While \/ Return \/ ForNext \/ ForExit \/ Experiment \/ Judge

Spec == Init /\ [][Next]_vars

\* The interpreter goes on: a step that can be taken is taken.
FairSpec == Spec /\ WF_vars(Next)

(***************************************************************************)
(* A walk on the chain of two lineups: calculate_markov_chain, then        *)
(* simulate_next again and again (util.py:173-178).                        *)
(***************************************************************************)
\* MarkovChain.simulate_next: the states one draw can lead to from state
\* `from`, those of its transitions with a probability above zero.
simulate_next(chain, from) ==
    {chain[k].destination :
        k \in {j \in DOMAIN chain : chain[j].source = from /\ chain[j].probability > 0}}

AllS == {S(n, team_state) : n \in Name, team_state \in TeamState}

ChainInit ==
    /\ \E lineup1 \in ValidLineups(names[1]), lineup2 \in ValidLineups(names[2]) :
          mc = calculate_markov_chain(lineup1, lineup2)
    /\ s \in transient_states(mc)
    /\ lineups_by_name = <<>> /\ max_cycles_without_improvement = 0
    /\ local_lineups_by_name = <<>> /\ cycles_without_improvement = 0
    /\ pc = "walk" /\ name_index = 0
    /\ cur_lineup = {} /\ next_goal_p = 0 /\ trial_next_goal_p = 0 /\ trial_lineup = {}
    /\ description = <<>>
    /\ judged = "" /\ accepted_in_pass = FALSE /\ stall_passes = 0
    /\ pass_start = <<>> /\ improved = FALSE
    /\ score_keeper = <<>> /\ step = 0

\* next_s = mc.simulate_next(s); s = next_s
SimulateNext(next_s) ==
    /\ next_s \in simulate_next(mc, s)
    /\ s' = next_s
    /\ UNCHANGED <<mc, optimiser_vars, score_keeper, step>>

ChainNext == \E next_s \in AllS : SimulateNext(next_s)

\* Every transition that is enabled again and again is taken again and again.
ChainSpec ==
    ChainInit /\ [][ChainNext]_vars /\ \A next_s \in AllS : SF_vars(SimulateNext(next_s))

(***************************************************************************)
(* hold_fixture (util.py:168-189): a match of range(100) steps on the      *)
(* chain of the two lineups the optimiser returned.                        *)
(***************************************************************************)
\* util.py:177
Steps == 100

\* The groups a fixture is played with: lineups of a goalkeeper and an
\* outfield player at either end of the field.
FixtureGroups == {g \in InputGroups :
                     \A n \in Name : \E q \in Squad(n) : g[n].players[q] \in {"D", "F"}}

\* Counter(), and Counter.update([name])
Counter == [n \in Name |-> 0]

update(counter, name) == [counter EXCEPT ![name] = @ + 1]

\* a kick-off by the team that has scored
KickoffByScorers(next_s, name_1, name_2) ==
    IF next_s[2] = "SCORED" THEN S(next_s[1], "WITH_M") ELSE next_s

\* no kick-off: the drawn state is the state of the next step
NoKickoff(next_s, name_1, name_2) == next_s

\* util.py:180-187, the state of the next step
Kickoff(next_s, name_1, name_2) ==
    IF next_s = S(name_1, "SCORED") THEN S(name_2, "WITH_M")
    ELSE IF next_s = S(name_2, "SCORED") THEN S(name_1, "WITH_M")
    ELSE next_s

\* util.py:180-184, the scores after the step
Keep(counter, next_s, name_1, name_2) ==
    IF next_s = S(name_1, "SCORED") THEN update(counter, name_1)
    ELSE IF next_s = S(name_2, "SCORED") THEN update(counter, name_2)
    ELSE counter

\* util.py:173-176
FixtureInit ==
    /\ \E g \in FixtureGroups : mc = calculate_markov_chain(g[names[1]], g[names[2]])
    /\ s = S(names[1], "WITH_M")
    /\ score_keeper = Counter
    /\ step = 0
    /\ pc = "step"
    /\ lineups_by_name = <<>> /\ max_cycles_without_improvement = 0
    /\ local_lineups_by_name = <<>> /\ cycles_without_improvement = 0
    /\ name_index = 0
    /\ cur_lineup = {} /\ next_goal_p = 0 /\ trial_next_goal_p = 0 /\ trial_lineup = {}
    /\ description = <<>>
    /\ judged = "" /\ accepted_in_pass = FALSE /\ stall_passes = 0
    /\ pass_start = <<>> /\ improved = FALSE

\* util.py:177-187, one step of the loop.  simulate_next has nothing to draw
\* in a state without transitions and raises.
HoldFixtureStep ==
    /\ pc = "step"
    /\ step < Steps
    /\ IF simulate_next(mc, s) = {}
       THEN /\ pc' = "terminal_state_error"
            /\ UNCHANGED <<s, score_keeper, step>>
       ELSE /\ \E next_s \in simulate_next(mc, s) :
                  /\ s' = Kickoff(next_s, names[1], names[2])
                  /\ score_keeper' = Keep(score_keeper, next_s, names[1], names[2])
            /\ step' = step + 1
            /\ pc' = pc
    /\ UNCHANGED <<mc, lineups_by_name, max_cycles_without_improvement, local_lineups_by_name,
                   cycles_without_improvement, name_index, locals, judged, accepted_in_pass,
                   stall_passes, pass_start, improved>>

\* util.py:177, 189: the range is exhausted
HoldFixtureReturn ==
    /\ pc = "step"
    /\ step = Steps
    /\ pc' = "returned"
    /\ UNCHANGED <<mc, s, score_keeper, step, lineups_by_name, max_cycles_without_improvement,
                   local_lineups_by_name, cycles_without_improvement, name_index, locals, judged,
                   accepted_in_pass, stall_passes, pass_start, improved>>

FixtureNext == HoldFixtureStep \/ HoldFixtureReturn

FixtureSpec == FixtureInit /\ [][FixtureNext]_vars

(***************************************************************************)
(* The optimiser's trials.                                                 *)
(***************************************************************************)
\* C1: a trial replaces the team's lineup in the working mapping exactly
\* when a candidate was produced and the candidate's objective against the
\* working mapping is strictly greater than that of the team's lineup in it;
\* a candidate of equal or lower objective, or no candidate, leaves the
\* working mapping as it was.
C1_AcceptedIffStrictlyGreater ==
    [][pc = "judge" =>
          LET reference == local_lineups_by_name
              current == reference[cur_name]
              better == \E candidate \in trial_lineup :
                            MeanNextGoalProb(candidate, reference)
                                > MeanNextGoalProb(current, reference)
          IN  IF better
              THEN /\ local_lineups_by_name'[cur_name] \in trial_lineup
                   /\ local_lineups_by_name'[cur_name] # current
                   /\ \A n \in Name \ {cur_name} : local_lineups_by_name'[n] = reference[n]
              ELSE local_lineups_by_name' = reference]_vars

\* a candidate with a strictly greater objective has replaced the lineup
C1_Witness ==
    /\ pc = "for" /\ judged = "accepted"
    /\ trial_next_goal_p > next_goal_p
    /\ local_lineups_by_name[cur_name] \in trial_lineup
    /\ local_lineups_by_name[cur_name] \notin cur_lineup

\* C2 as it is stated: at the end of a pass the counter is the number of
\* consecutive full passes that ended without an acceptance, zero after a
\* pass with one, and the function returns when that number of passes is the
\* threshold, not earlier.
C2_CounterCountsStallPasses ==
    /\ pc = "while" => cycles_without_improvement = stall_passes
    /\ pc = "done" => stall_passes = max_cycles_without_improvement

\* C3 as it is stated: for every team the objective of the returned lineup
\* against the returned group is at least the objective of the input lineup
\* against the input group.
C3_ReturnedObjectiveNotBelowInput ==
    pc = "done" =>
        \A n \in Name :
            MeanNextGoalProb(local_lineups_by_name[n], local_lineups_by_name)
                >= MeanNextGoalProb(lineups_by_name[n], lineups_by_name)

\* C3, amended: every acceptance strictly raises the accepting team's
\* objective against the lineups the other teams hold at that moment.
C3_AcceptanceRaisesOwnObjective ==
    (pc = "for" /\ judged = "accepted") =>
        \A replaced \in cur_lineup :
            MeanNextGoalProb(local_lineups_by_name[cur_name], local_lineups_by_name)
                > MeanNextGoalProb(replaced, local_lineups_by_name)

\* a team has accepted a lineup, and the objective of another team, whose
\* lineup is the same as before, is lower than it was before the acceptance
C3_Witness ==
    /\ pc = "for" /\ judged = "accepted"
    /\ \E replaced \in cur_lineup, n \in Name \ {cur_name} :
          MeanNextGoalProb(local_lineups_by_name[n], local_lineups_by_name)
              < MeanNextGoalProb(local_lineups_by_name[n],
                                 [local_lineups_by_name EXCEPT ![cur_name] = replaced])

\* C4: within a pass a team's current objective and its trial objective are
\* both computed against the working mapping as the teams visited before it
\* in the pass have left it, not against the lineups at the start of the pass.
C4_EvaluatedAgainstUpdatedLineups ==
    pc = "judge" =>
        /\ cur_lineup = {local_lineups_by_name[names[name_index]]}
        /\ \A n \in Name :
              local_lineups_by_name[n] # pass_start[n]
                  => \E k \in 1..(name_index - 1) : names[k] = n
        /\ \A current \in cur_lineup :
              next_goal_p = MeanNextGoalProb(current, local_lineups_by_name)
        /\ \A candidate \in trial_lineup :
              trial_next_goal_p = MeanNextGoalProb(candidate, local_lineups_by_name)

\* the second team is judged after the first has accepted a lineup in the
\* same pass, and both of its objectives differ from what the lineups at the
\* start of the pass would give
C4_Witness ==
    /\ pc = "judge" /\ name_index = 2 /\ accepted_in_pass
    /\ local_lineups_by_name[names[1]] # pass_start[names[1]]
    /\ \E current \in cur_lineup : next_goal_p # MeanNextGoalProb(current, pass_start)
    /\ \E candidate \in trial_lineup :
          trial_next_goal_p # MeanNextGoalProb(candidate, pass_start)

\* C5: a trial that produces no candidate (two players of the same position
\* swapped, or a change that makes an invalid lineup) is a rejected trial: no
\* exception leaves the optimiser, the working mapping and the stall counter
\* stay as they are, and the loop goes on.
C5_NoCandidateIsSilentRejection ==
    /\ [](pc # "raised")
    /\ [][(pc = "trial" /\ pc' = "judge"
             /\ \/ /\ description'[1] = "swap"
                   /\ \A l \in cur_lineup' :
                         l.players[description'[2]] = l.players[description'[3]]
                \/ /\ description'[1] = "move"
                   /\ \A l \in cur_lineup' :
                         with_player_positions(
                             l, << <<description'[2], description'[3]>> >>).raised)
            => trial_lineup' = {}]_vars
    /\ [][(pc = "judge" /\ trial_lineup = {})
            => /\ local_lineups_by_name' = local_lineups_by_name
               /\ cycles_without_improvement' = cycles_without_improvement
               /\ pc' = "for"]_vars

\* a second goalkeeper was tried, and the trial was passed over
C5_Witness ==
    /\ pc = "for" /\ judged = "no_candidate"
    /\ description[1] = "move" /\ description[3] = "GK"
    /\ trial_lineup = {}
    /\ cycles_without_improvement = 0

\* C6: if no trial of a run had a candidate with a strictly greater
\* objective, the returned mapping is the input mapping, whatever the
\* threshold.
C6_AllRejectedReturnsInput ==
    (pc = "done" /\ ~improved) => local_lineups_by_name = lineups_by_name

\* a run of the largest threshold has returned without an improving trial
C6_Witness ==
    /\ pc = "done" /\ ~improved
    /\ max_cycles_without_improvement = MaxThreshold
    /\ stall_passes = MaxThreshold

(***************************************************************************)
(* The chain of two lineups.                                               *)
(***************************************************************************)
Other(team) == CHOOSE n \in Name : n # team

\* the phase a success leads to, in the same team
OnSuccess(team_state) ==
    CASE team_state = "WITH_GK" -> "WITH_D"
      [] team_state = "WITH_D" -> "WITH_M"
      [] team_state = "WITH_M" -> "WITH_F"
      [] team_state = "WITH_F" -> "SCORED"

\* the phase a failure leads to, in the opposing team
OnFailure(team_state) ==
    CASE team_state = "WITH_GK" -> "WITH_F"
      [] team_state = "WITH_D" -> "WITH_M"
      [] team_state = "WITH_M" -> "WITH_D"
      [] team_state = "WITH_F" -> "WITH_GK"

Outgoing(chain, from) == {k \in DOMAIN chain : chain[k].source = from}

\* C7: every state other than SCORED has exactly two outgoing transitions,
\* a success with probability p to the next phase of the same team and a
\* failure with probability 1 - p to the opposing team's phase; no (source,
\* destination) pair occurs twice and the probabilities out of a state sum
\* to 1.
C7_TwoOutcomesPerState ==
    /\ \A team \in Name, team_state \in TeamState \ {"SCORED"} :
          /\ Cardinality(Outgoing(mc, S(team, team_state))) = 2
          /\ \E k1, k2 \in Outgoing(mc, S(team, team_state)) :
                /\ mc[k1].destination = S(team, OnSuccess(team_state))
                /\ mc[k2].destination = S(Other(team), OnFailure(team_state))
                /\ mc[k1].probability \in 0..FP
                /\ mc[k2].probability = FP - mc[k1].probability
                /\ mc[k1].probability + mc[k2].probability = FP
    /\ \A k1, k2 \in DOMAIN mc :
          (mc[k1].source = mc[k2].source /\ mc[k1].destination = mc[k2].destination)
              => k1 = k2

\* the walk stands where both the success and the failure can be drawn
C7_Witness ==
    /\ s = S("A", "WITH_D")
    /\ simulate_next(mc, s) = {S("A", "WITH_M"), S("B", "WITH_M")}

\* C8: the chain has ten states, two teams times five phases; the two
\* SCORED states have no outgoing transition and are absorbing, the other
\* eight are transient.
C8_TenStatesTwoAbsorbing ==
    /\ ChainStates(mc) = AllS
    /\ Cardinality(ChainStates(mc)) = 10
    /\ absorbing_states(mc) = {S(n, "SCORED") : n \in Name}
    /\ \A n \in Name : Outgoing(mc, S(n, "SCORED")) = {}
    /\ transient_states(mc) = {S(n, team_state) : n \in Name, team_state \in TeamState \ {"SCORED"}}
    /\ Cardinality(transient_states(mc)) = 8
    /\ s \in absorbing_states(mc) => simulate_next(mc, s) = {}

\* the walk has come to a SCORED state, which nothing leaves
C8_Witness ==
    /\ s = S("B", "SCORED")
    /\ s \in absorbing_states(mc)
    /\ simulate_next(mc, s) = {}

\* C9: from every transient state a fair walk of simulate_next comes to a
\* SCORED state.
C9_EventuallyScored == <>(s \in {S(n, "SCORED") : n \in Name})

\* the walk has been absorbed
C9_Witness ==
    /\ s = S("A", "SCORED")
    /\ \A from \in transient_states(mc) : simulate_next(mc, from) # {}

\* C10 as it is stated: WITH_M and WITH_F of each team both have a transition
\* into the team's own SCORED and one into the opposing team's WITH_GK.
C10_BothPhasesShoot ==
    \A team \in Name, team_state \in {"WITH_M", "WITH_F"} :
        /\ \E k \in Outgoing(mc, S(team, team_state)) :
              mc[k].destination = S(team, "SCORED")
        /\ \E k \in Outgoing(mc, S(team, team_state)) :
              mc[k].destination = S(Other(team), "WITH_GK")

\* C10, amended: of the phases of a team only WITH_F has a transition into
\* the team's own SCORED and one into the opposing team's WITH_GK; WITH_M
\* leads to the team's own WITH_F and to the opposing team's WITH_D.
C10_OnlyForwardsShoot ==
    \A team \in Name :
        /\ {mc[k].destination : k \in Outgoing(mc, S(team, "WITH_F"))}
              = {S(team, "SCORED"), S(Other(team), "WITH_GK")}
        /\ {mc[k].destination : k \in Outgoing(mc, S(team, "WITH_M"))}
              = {S(team, "WITH_F"), S(Other(team), "WITH_D")}
        /\ \A k \in DOMAIN mc :
              /\ mc[k].destination = S(team, "SCORED") => mc[k].source = S(team, "WITH_F")
              /\ mc[k].destination = S(Other(team), "WITH_GK")
                    => mc[k].source = S(team, "WITH_F")

\* the walk stands at the forwards, who can score or lose the ball to the
\* opposing goalkeeper
C10_Witness ==
    /\ s = S("A", "WITH_F")
    /\ simulate_next(mc, s) = {S("A", "SCORED"), S("B", "WITH_GK")}

(***************************************************************************)
(* The end of the search.                                                  *)
(***************************************************************************)
\* C12 as it is stated: for every group of lineups and every threshold
\* optimize returns in the end; no run goes on for ever.
C12_EventuallyReturns == <>(pc = "done")

\* C12, amended: a run in which only finitely many trials are accepted
\* returns; a run that never returns is one in which trials are accepted
\* again and again.
C12_ReturnsUnlessAcceptingForEver ==
    ([]<>(pc = "for" /\ judged = "accepted")) \/ <>(pc = "done")

\* a run of the largest threshold has returned after a trial was accepted
C12_Witness ==
    /\ pc = "done" /\ improved
    /\ local_lineups_by_name # lineups_by_name
    /\ cycles_without_improvement = MaxThreshold

\* C14: throughout a run of optimize the working mapping has the names of
\* the input mapping, every lineup in it has the name and the players of the
\* input lineup of its team (positions only may differ), at most 11 players
\* and at most one goalkeeper.
C14_LineupsStayValid ==
    /\ DOMAIN local_lineups_by_name = DOMAIN lineups_by_name
    /\ \A n \in DOMAIN local_lineups_by_name :
          /\ local_lineups_by_name[n].name = lineups_by_name[n].name
          /\ DOMAIN local_lineups_by_name[n].players = DOMAIN lineups_by_name[n].players
          /\ Cardinality(DOMAIN local_lineups_by_name[n].players) <= 11
          /\ Cardinality({q \in DOMAIN local_lineups_by_name[n].players :
                             local_lineups_by_name[n].players[q] = "GK"}) <= 1

\* a swap has been accepted that hands the goalkeeper's place to another
\* player of the team
C14_Witness ==
    /\ pc = "for" /\ judged = "accepted"
    /\ description[1] = "swap"
    /\ \E q \in DOMAIN local_lineups_by_name[cur_name].players :
          /\ local_lineups_by_name[cur_name].players[q] = "GK"
          /\ lineups_by_name[cur_name].players[q] # "GK"

(***************************************************************************)
(* The match.                                                              *)
(***************************************************************************)
\* C11: hold_fixture makes exactly 100 draws of simulate_next, one per step;
\* when the drawn state is a team's SCORED the score of that team, and of no
\* other, grows by one and the next step starts at WITH_M of the other team,
\* within the same step; any other drawn state is the state of the next step
\* and the scores stay.
C11_HundredStepsKickoffAfterGoal ==
    /\ [](step \in 0..Steps)
    /\ [](pc = "returned" => step = Steps)
    /\ [][(pc = "step" /\ pc' = "returned") => (step = 100 /\ UNCHANGED <<s, score_keeper, step>>)]_vars
    /\ [][(pc = "step" /\ pc' = "step")
            => /\ step' = step + 1
               /\ \E drawn \in simulate_next(mc, s) :
                     IF drawn[2] = "SCORED"
                     THEN /\ score_keeper'[drawn[1]] = score_keeper[drawn[1]] + 1
                          /\ score_keeper'[Other(drawn[1])] = score_keeper[Other(drawn[1])]
                          /\ s' = S(Other(drawn[1]), "WITH_M")
                     ELSE /\ score_keeper' = score_keeper
                          /\ s' = drawn]_vars

\* a match of 100 steps is over in which both teams have scored
C11_Witness ==
    /\ pc = "returned" /\ step = 100
    /\ score_keeper["A"] > 0 /\ score_keeper["B"] > 0

\* C13: at every step of a match the state handed to simulate_next is a
\* transient state of the chain, never a SCORED state, so simulate_next never
\* fails for want of a transition.
C13_NeverSimulatedFromScored ==
    /\ pc # "terminal_state_error"
    /\ pc = "step" =>
          /\ s[2] # "SCORED"
          /\ s \in transient_states(mc)
          /\ simulate_next(mc, s) # {}

\* a team has scored, the other has kicked off, and the match goes on from
\* a state of the team that kicked off
C13_Witness ==
    /\ pc = "step" /\ step < Steps
    /\ score_keeper["A"] > 0
    /\ s = S("B", "WITH_F")
    /\ simulate_next(mc, s) # {}
====
